---- MODULE Spec2Model ----
(***************************************************************************)
(* SimQLe: the ConnectionManager and _Connection classes of                *)
(* simqle/connection_manager.py as a state machine.                        *)
(*                                                                         *)
(* Connection strings are sequences of one-character strings, so that      *)
(* quote_plus is computed and not assumed.  Objects (_Connection           *)
(* instances, engine handles) are identified by their index of creation.   *)
(***************************************************************************)
EXTENDS Integers, Sequences, FiniteSets, TLC

(* ------------------------------------------------------------------ *)
(* Bounds of the model.                                                 *)
(* ------------------------------------------------------------------ *)

\* Calls the one thread of a sequential program makes.
MaxCalls == 3

\* Calls each thread of a concurrent program makes.
MaxThreadCalls == 2

Threads == {"t1", "t2"}

(* ------------------------------------------------------------------ *)
(* Configuration files.                                                 *)
(* ------------------------------------------------------------------ *)

\* A record of the "connections" list of a configuration file.  url_escape
\* is "absent" when the record has no such key, else the value of the key.
ConnRec(n, c, u) ==
    [name |-> n, driver |-> <<"sqlite://">>, connection |-> c, url_escape |-> u]

CfgA ==
    [connections |-> << ConnRec("db1", <<"a", " ", "b">>, "absent"),
                        ConnRec("db2", <<"k", "=", "v", ";">>, "false") >>]

CfgB ==
    [connections |-> << ConnRec("db1", <<"k", "=", "v", ";">>, "true") >>]

Configs == {CfgA, CfgB}

\* The names callers ask for; "nope" is in no configuration.
AllNames == {"db1", "db2", "nope"}

\* simqle/constants.py is not among the sources: the default locations are
\* an ordered, fixed priority list of paths.
DEFAULT_FILE_LOCATIONS == <<"default1", "default2", "default3">>

ExplicitFile == "given.yaml"

Locations ==
    {DEFAULT_FILE_LOCATIONS[i] : i \in DOMAIN DEFAULT_FILE_LOCATIONS}
        \cup {ExplicitFile}

\* An optional value is a sequence of at most one element; <<>> is None.
Some(x) == <<x>>

VARIABLES
    files,        \* the file system: location -> optional configuration
    mgr,          \* the ConnectionManager: "none", "scanning", "ready", "failed"
    ctorArg,      \* file_name given to __init__, <<>> when none is given
    ctorIdx,      \* position of __init__'s loop over DEFAULT_FILE_LOCATIONS
    ctorError,    \* the exception __init__ raised, "" when none
    config,       \* self.config, <<>> while unset
    connections,  \* self.connections: name -> index of a _Connection, 0: no entry
    conns,        \* the _Connection objects, in order of construction
    constructed,  \* history: the name each _Connection was constructed for
    handles,      \* history: the engines create_engine returned, in order
    resolved,     \* history: the <<name, _Connection>> pairs _get_connection returned
    pc,           \* per thread: the place its call has reached
    frame,        \* per thread: arguments and locals of its call
    calls,        \* per thread: calls begun
    last,         \* the call that finished last: arguments and outcome
    failed,       \* history: the _Connections whose create_engine has raised
    internal,     \* simqle.internal.INTERNAL_CONNECTION_MANAGER, 0: None
    loads,        \* calls of the functions of simqle.internal begun
    internalLast  \* the call of simqle.internal that finished last

ctorVars == <<files, mgr, ctorArg, ctorIdx, ctorError>>

objVars == <<conns, constructed, handles, resolved, failed>>

threadVars == <<pc, frame, calls, last>>

internalVars == <<internal, loads, internalLast>>

vars == <<ctorVars, config, connections, objVars, threadVars, internalVars>>

(* ------------------------------------------------------------------ *)
(* ConnectionManager.__init__                                           *)
(* ------------------------------------------------------------------ *)

\* _load_yaml_file: the loaded content, <<>> when open or safe_load raises.
LoadYamlFile(fs, connections_file) == fs[connections_file]

EmptyConnections == [n \in AllNames |-> 0]

\* __init__ up to the branch on file_name.  With a file_name the file is
\* loaded and an exception of the load leaves the constructor.
CtorBegin(f) ==
    /\ mgr = "none"
    /\ ctorArg' = f
    /\ connections' = EmptyConnections
    /\ IF f = <<>>
       THEN /\ mgr' = "scanning"
            /\ ctorIdx' = 1
            /\ UNCHANGED <<config, ctorError>>
       ELSE /\ ctorIdx' = ctorIdx
            /\ IF LoadYamlFile(files, f[1]) = <<>>
               THEN /\ mgr' = "failed"
                    /\ ctorError' = "ConfigLoadError"
                    /\ config' = config
               ELSE /\ mgr' = "ready"
                    /\ ctorError' = ctorError
                    /\ config' = LoadYamlFile(files, f[1])
    /\ UNCHANGED <<files, objVars, threadVars, internalVars>>

\* One round of the loop: the load is tried, its result assigned to
\* self.config, an exception swallowed; the loop goes on either way.
CtorTryDefault ==
    /\ mgr = "scanning"
    /\ ctorIdx <= Len(DEFAULT_FILE_LOCATIONS)
    /\ LET got == LoadYamlFile(files, DEFAULT_FILE_LOCATIONS[ctorIdx])
       IN  config' = IF got = <<>> THEN config ELSE got
    /\ ctorIdx' = ctorIdx + 1
    /\ UNCHANGED <<files, mgr, ctorArg, ctorError, connections, objVars,
                   threadVars, internalVars>>

\* The statement after the loop: reached whenever the loop ends.
CtorRaise ==
    /\ mgr = "scanning"
    /\ ctorIdx > Len(DEFAULT_FILE_LOCATIONS)
    /\ mgr' = "failed"
    /\ ctorError' = "NoConfigFound"
    /\ UNCHANGED <<files, ctorArg, ctorIdx, config, connections, objVars,
                   threadVars, internalVars>>

(* ------------------------------------------------------------------ *)
(* _Connection.__init__                                                 *)
(* ------------------------------------------------------------------ *)

\* urllib.parse.quote_plus on one character: letters, digits and "_.-~"
\* are kept, a space becomes "+", any other character its %XX escape.
QuoteChar(ch) ==
    CASE ch = " " -> <<"+">>
      [] ch = "=" -> <<"%", "3", "D">>
      [] ch = ";" -> <<"%", "3", "B">>
      [] OTHER    -> <<ch>>

RECURSIVE quote_plus(_)
quote_plus(str) ==
    IF str = <<>> THEN <<>>
    ELSE QuoteChar(Head(str)) \o quote_plus(Tail(str))

\* The test of line 126: the key is present, whatever its value.
HasUrlEscapeKey(conn_config) == conn_config.url_escape # "absent"

\* A _Connection constructed with an engine already in its slot.
NewConnectionEager(conn_config) ==
    [driver            |-> conn_config.driver,
     connection_string |-> conn_config.connection,
     _engine           |-> 1]

\* The fields of a new _Connection; _engine is 0 for None, else the index
\* of an engine handle.
NewConnection(conn_config) ==
    [driver            |-> conn_config.driver,
     connection_string |-> IF HasUrlEscapeKey(conn_config)
                           THEN quote_plus(conn_config.connection)
                           ELSE conn_config.connection,
     _engine           |-> 0]

(* ------------------------------------------------------------------ *)
(* _Connection._bind_sql and _bind_params                               *)
(* ------------------------------------------------------------------ *)

\* The statements callers pass, and the named placeholders each holds.
Sqls == {"SELECT 1", "SELECT :x", "SELECT :x, :y"}

Placeholders(sql) ==
    CASE sql = "SELECT :x" -> {"x"}
      [] sql = "SELECT :x, :y" -> {"x", "y"}
      [] OTHER -> {}

\* Parameter values; the strings among them.
StrValues == {"str:a"}

isinstance_str(value) == value \in StrValues

\* A params argument: None, or a mapping given as its set of items.
ParamsNone == [isNone |-> TRUE, items |-> {}]

Mapping(items) == [isNone |-> FALSE, items |-> items]

\* "if params": None and the empty mapping are both false.
Truthy(params) == ~params.isNone /\ params.items # {}

\* text(sql): a statement with nothing bound yet.
text(sql) == [sql |-> sql, binds |-> {}]

NoStatement == [sql |-> "", binds |-> {}]

\* A bindparam that gives every value the type VARCHAR(None).
bindparamAlwaysTyped(key, value) ==
    [key |-> key, value |-> value, type |-> "VARCHAR"]

\* One bindparam: VARCHAR(None) for a str value, no type otherwise.
bindparam(key, value) ==
    [key |-> key, value |-> value,
     type |-> IF isinstance_str(value) THEN "VARCHAR" ELSE "untyped"]

\* _bind_params: every item bound in turn.  bindparams raises for a key
\* the statement has no placeholder for.
BindParamsRaises(bound_sql, params) ==
    \E it \in params.items : it[1] \notin Placeholders(bound_sql.sql)

_bind_params(bound_sql, params) ==
    [bound_sql EXCEPT !.binds =
        bound_sql.binds \cup {bindparam(it[1], it[2]) : it \in params.items}]

BindSqlRaises(sql, params) ==
    Truthy(params) /\ BindParamsRaises(text(sql), params)

_bind_sql(sql, params) ==
    IF Truthy(params) THEN _bind_params(text(sql), params) ELSE text(sql)

(* ------------------------------------------------------------------ *)
(* The driver collaborator and the bodies of _execute_sql, _recordset   *)
(* ------------------------------------------------------------------ *)

\* The driver is scripted per call: the primitive that raises when the
\* call reaches it ("none": the driver raises nowhere).
Faults ==
    {"none", "create_engine", "connect", "begin", "execute", "fetchall",
     "keys", "commit"}

\* How a call ends.  log: the driver primitives called, in order, the one
\* that raised included; executed: the statement handed to execute.
Raise(err, log, executed) ==
    [status |-> "raised", error |-> err, kind |-> "", value |-> 0,
     log |-> log, executed |-> executed]

Return(kind, value, log, executed) ==
    [status |-> "returned", error |-> "", kind |-> kind, value |-> value,
     log |-> log, executed |-> executed]

NoOutcome == Return("", 0, <<>>, NoStatement)

\* Lines 149-162: connect and begin stand before the try; execute and
\* commit inside it; rollback in the except clause, which re-raises;
\* close in the finally clause.
ExecuteSqlBody(bound_sql, fault) ==
    CASE fault = "connect" ->
            Raise("DriverError", <<"connect">>, NoStatement)
      [] fault = "begin" ->
            Raise("DriverError", <<"connect", "begin">>, NoStatement)
      [] fault = "execute" ->
            Raise("DriverError",
                  <<"connect", "begin", "execute", "rollback", "close">>,
                  bound_sql)
      [] fault = "commit" ->
            Raise("DriverError",
                  <<"connect", "begin", "execute", "commit", "rollback",
                    "close">>,
                  bound_sql)
      [] OTHER ->
            Return("None", 0,
                   <<"connect", "begin", "execute", "commit", "close">>,
                   bound_sql)

\* Lines 174-186: a straight line of driver calls with no handler: the
\* first that raises ends the call.
RecordsetSteps ==
    <<"connect", "begin", "execute", "fetchall", "keys", "commit", "close">>

IndexOf(seq, x) == CHOOSE i \in DOMAIN seq : seq[i] = x

RecordsetBody(bound_sql, fault) ==
    IF \E i \in DOMAIN RecordsetSteps : RecordsetSteps[i] = fault
    THEN LET k == IndexOf(RecordsetSteps, fault)
         IN  Raise("DriverError", SubSeq(RecordsetSteps, 1, k),
                   IF k >= IndexOf(RecordsetSteps, "execute")
                   THEN bound_sql ELSE NoStatement)
    ELSE Return("data_headings", 0, RecordsetSteps, bound_sql)

(* ------------------------------------------------------------------ *)
(* Calls                                                                *)
(* ------------------------------------------------------------------ *)

IdleFrame ==
    [op |-> "", name |-> "", conn |-> 0, sql |-> "", params |-> ParamsNone,
     fault |-> "none", obj |-> 0, handle |-> 0, bound |-> NoStatement,
     before |-> EmptyConnections]

NoCall == [thread |-> "", call |-> IdleFrame, outcome |-> NoOutcome]

\* The call of thread t ends with outcome o.
Finish(t, o) ==
    /\ pc' = [pc EXCEPT ![t] = "idle"]
    /\ frame' = [frame EXCEPT ![t] = IdleFrame]
    /\ last' = [thread |-> t, call |-> frame[t], outcome |-> o]
    /\ calls' = calls

\* A thread calls a public method of the ConnectionManager.
StartManagerCall(t, op, name, sql, params, fault) ==
    /\ mgr = "ready"
    /\ pc[t] = "idle"
    /\ calls' = [calls EXCEPT ![t] = @ + 1]
    /\ frame' = [frame EXCEPT ![t] =
                    [IdleFrame EXCEPT !.op = op, !.name = name, !.sql = sql,
                                      !.params = params, !.fault = fault,
                                      !.before = connections]]
    /\ pc' = [pc EXCEPT ![t] =
                 IF op = "get_connection" THEN "deprecated" ELSE "lookup"]
    /\ last' = NoCall
    /\ UNCHANGED <<ctorVars, internalVars, config, connections, objVars>>

\* A thread calls a method of the _Connection c, or reads its engine.
StartConnectionCall(t, c, op, sql, params, fault) ==
    /\ mgr = "ready"
    /\ pc[t] = "idle"
    /\ c \in DOMAIN conns
    /\ calls' = [calls EXCEPT ![t] = @ + 1]
    /\ frame' = [frame EXCEPT ![t] =
                    [IdleFrame EXCEPT !.op = op, !.conn = c, !.sql = sql,
                                      !.params = params, !.fault = fault,
                                      !.before = connections]]
    /\ pc' = [pc EXCEPT ![t] = IF op = "engine" THEN "engine" ELSE "bind"]
    /\ last' = NoCall
    /\ UNCHANGED <<ctorVars, internalVars, config, connections, objVars>>

\* get_connection: self.get_engine() lacks the con_name argument.
DeprecatedGetConnection(t) ==
    /\ pc[t] = "deprecated"
    /\ Finish(t, Raise("TypeError", <<>>, NoStatement))
    /\ UNCHANGED <<ctorVars, internalVars, config, connections, objVars>>

(* ------------------------------------------------------------------ *)
(* ConnectionManager._get_connection                                    *)
(* ------------------------------------------------------------------ *)

\* Line 88 with the test of the cache lost: every call scans the config.
GetConnLookupNoCache(t) ==
    /\ pc[t] = "lookup"
    /\ pc' = [pc EXCEPT ![t] = "scan"]
    /\ UNCHANGED <<ctorVars, internalVars, config, connections, objVars, frame, calls, last>>

\* Line 88: conn_name in self.connections.
GetConnLookup(t) ==
    /\ pc[t] = "lookup"
    /\ pc' = [pc EXCEPT ![t] =
                 IF connections[frame[t].name] # 0 THEN "return_conn"
                 ELSE "scan"]
    /\ UNCHANGED <<ctorVars, internalVars, config, connections, objVars, frame, calls, last>>

\* Line 93 with the comparison of the names lost: every record matches.
MatchesAnyName(conn_name) == DOMAIN config[1].connections

\* The positions of the records of the loaded config named conn_name.
Matches(conn_name) ==
    {i \in DOMAIN config[1].connections :
        config[1].connections[i].name = conn_name}

Min(S) == CHOOSE i \in S : \A j \in S : i <= j

\* Lines 92-94 and 97: the scan of the config list; the first record with
\* the name is made into a _Connection, no such record raises.
GetConnScan(t) ==
    /\ pc[t] = "scan"
    /\ IF Matches(frame[t].name) = {}
       THEN /\ Finish(t, Raise("UnknownConnection", <<>>, NoStatement))
            /\ UNCHANGED <<conns, constructed>>
       ELSE /\ conns' = Append(conns,
                   NewConnection(config[1].connections[Min(Matches(frame[t].name))]))
            /\ constructed' = Append(constructed, frame[t].name)
            /\ frame' = [frame EXCEPT ![t].obj = Len(conns) + 1]
            /\ pc' = [pc EXCEPT ![t] = "store"]
            /\ UNCHANGED <<calls, last>>
    /\ UNCHANGED <<ctorVars, internalVars, config, connections, handles,
                   resolved, failed>>

\* Line 94: the store into self.connections.
GetConnStore(t) ==
    /\ pc[t] = "store"
    /\ connections' = [connections EXCEPT ![frame[t].name] = frame[t].obj]
    /\ pc' = [pc EXCEPT ![t] = "return_conn"]
    /\ UNCHANGED <<ctorVars, internalVars, config, objVars, frame, calls, last>>

\* Lines 89 and 95: return self.connections[conn_name]; the caller goes on
\* with the object returned.
GetConnReturn(t) ==
    /\ pc[t] = "return_conn"
    /\ resolved' = resolved \cup {<<frame[t].name, connections[frame[t].name]>>}
    /\ frame' = [frame EXCEPT ![t].conn = connections[frame[t].name]]
    /\ pc' = [pc EXCEPT ![t] =
                 IF frame[t].op = "get_engine" THEN "engine" ELSE "forward"]
    /\ UNCHANGED <<ctorVars, internalVars, config, connections, conns,
                   constructed, handles, failed, calls, last>>

(* ------------------------------------------------------------------ *)
(* ConnectionManager.recordset and execute_sql                          *)
(* ------------------------------------------------------------------ *)

\* The attributes class _Connection defines.
ConnectionAttributes ==
    {"driver", "connection_string", "_engine", "_connect", "engine",
     "_execute_sql", "_recordset", "_bind_sql", "_bind_params"}

\* Lines 54 and 59: the attribute of the _Connection each method calls.
ForwardedAttribute(op) == op

\* Lines 54 and 59: the attribute is looked up before any argument is
\* passed; _Connection has no such attribute.
ForwardCall(t) ==
    /\ pc[t] = "forward"
    /\ ForwardedAttribute(frame[t].op) \notin ConnectionAttributes
    /\ Finish(t, Raise("AttributeError", <<>>, NoStatement))
    /\ UNCHANGED <<ctorVars, internalVars, config, connections, objVars>>

(* ------------------------------------------------------------------ *)
(* _Connection: binding, the engine property, _connect                  *)
(* ------------------------------------------------------------------ *)

\* A call that goes on to the engine with its statement not bound.
BindSkipped(t) ==
    /\ pc[t] = "bind"
    /\ pc' = [pc EXCEPT ![t] = "engine"]
    /\ UNCHANGED <<ctorVars, internalVars, config, connections, objVars,
                   frame, calls, last>>

\* Lines 145 and 171.
Bind(t) ==
    /\ pc[t] = "bind"
    /\ IF BindSqlRaises(frame[t].sql, frame[t].params)
       THEN Finish(t, Raise("ArgumentError", <<>>, NoStatement))
       ELSE /\ frame' = [frame EXCEPT ![t].bound =
                            _bind_sql(frame[t].sql, frame[t].params)]
            /\ pc' = [pc EXCEPT ![t] = "engine"]
            /\ UNCHANGED <<calls, last>>
    /\ UNCHANGED <<ctorVars, internalVars, config, connections, objVars>>

\* What the caller of the engine property does with the value h it got
\* (0: None).  get_engine calls it; _execute_sql and _recordset open a
\* session on it.
AfterEngine(f, h) ==
    CASE f.op = "engine" ->
            Return(IF h = 0 THEN "None" ELSE "engine", h, <<>>, NoStatement)
      [] f.op = "get_engine" ->
            Raise("TypeError", <<>>, NoStatement)
      [] h = 0 ->
            Raise("AttributeError", <<>>, NoStatement)
      [] f.op = "_execute_sql" -> ExecuteSqlBody(f.bound, f.fault)
      [] OTHER -> RecordsetBody(f.bound, f.fault)

\* Lines 138 and 141: the property's test of self._engine.
EngineGet(t) ==
    /\ pc[t] = "engine"
    /\ IF conns[frame[t].conn]._engine = 0
       THEN /\ pc' = [pc EXCEPT ![t] = "connect"]
            /\ UNCHANGED <<frame, calls, last>>
       ELSE Finish(t, AfterEngine(frame[t], conns[frame[t].conn]._engine))
    /\ UNCHANGED <<ctorVars, internalVars, config, connections, objVars>>

\* Line 133, right-hand side: create_engine(self.driver +
\* self.connection_string).
Connect(t) ==
    /\ pc[t] = "connect"
    /\ IF frame[t].fault = "create_engine"
       THEN /\ Finish(t, Raise("DriverError", <<"create_engine">>, NoStatement))
            /\ failed' = failed \cup {frame[t].conn}
            /\ UNCHANGED handles
       ELSE /\ failed' = failed
            /\ handles' = Append(handles,
                   [conn |-> frame[t].conn,
                    url  |-> conns[frame[t].conn].driver
                                 \o conns[frame[t].conn].connection_string])
            /\ frame' = [frame EXCEPT ![t].handle = Len(handles) + 1]
            /\ pc' = [pc EXCEPT ![t] = "assign"]
            /\ UNCHANGED <<calls, last>>
    /\ UNCHANGED <<ctorVars, internalVars, config, connections, conns, constructed, resolved>>

\* Line 133, the assignment self.engine = ...: engine is a property with
\* no setter, so the assignment raises and no attribute of the object
\* changes.
SetEngineAttribute(conn_obj, h) == [raised |-> TRUE, obj |-> conn_obj]

AssignEngine(t) ==
    /\ pc[t] = "assign"
    /\ LET r == SetEngineAttribute(conns[frame[t].conn], frame[t].handle)
       IN  /\ conns' = [conns EXCEPT ![frame[t].conn] = r.obj]
           /\ Finish(t, IF r.raised
                        THEN Raise("AttributeError", <<"create_engine">>, NoStatement)
                        ELSE AfterEngine(frame[t], r.obj._engine))
    /\ UNCHANGED <<ctorVars, internalVars, config, connections, constructed,
                   handles, resolved, failed>>

(* ------------------------------------------------------------------ *)
(* simqle.internal                                                      *)
(* ------------------------------------------------------------------ *)

\* Calls of the functions of simqle.internal a program makes.
MaxLoads == 3

NoInternalCall == [fn |-> "", file |-> "", status |-> "", error |-> ""]

\* load_connections assigns INTERNAL_CONNECTION_MANAGER (line 17) and has
\* no global statement, so the name is a local of the function: whether
\* the test of line 10 finds it bound.
LoadLocalIsBound == FALSE

\* load_connections(connections_file), lines 8-17.  With the local bound
\* to the global's value the guard raises for a loaded manager, else the
\* manager is constructed from the file; the assignment of line 17 is to
\* the local either way.
LoadConnections(f) ==
    /\ loads < MaxLoads
    /\ loads' = loads + 1
    /\ internalLast' =
          IF ~LoadLocalIsBound
          THEN [fn |-> "load_connections", file |-> f, status |-> "raised",
                error |-> "UnboundLocalError"]
          ELSE IF internal # 0
          THEN [fn |-> "load_connections", file |-> f, status |-> "raised",
                error |-> "AlreadyLoaded"]
          ELSE IF LoadYamlFile(files, f) = <<>>
          THEN [fn |-> "load_connections", file |-> f, status |-> "raised",
                error |-> "ConfigLoadError"]
          ELSE [fn |-> "load_connections", file |-> f, status |-> "returned",
                error |-> ""]
    /\ internal' = internal
    /\ UNCHANGED <<ctorVars, config, connections, objVars, threadVars>>

\* execute_sql, recordset and get_connection of simqle.internal, lines
\* 20-32: an attribute of the global is looked up; None has none.
InternalCall(fn) ==
    /\ loads < MaxLoads
    /\ loads' = loads + 1
    /\ internalLast' =
          [fn |-> fn, file |-> "",
           status |-> "raised",
           error |-> IF internal = 0 THEN "AttributeError"
                     ELSE "ManagerError"]
    /\ UNCHANGED <<ctorVars, config, connections, objVars, threadVars, internal>>

(* ------------------------------------------------------------------ *)
(* Specifications                                                       *)
(* ------------------------------------------------------------------ *)

ParamsSet ==
    {ParamsNone, Mapping({}), Mapping({<<"x", "int:5">>}),
     Mapping({<<"x", "str:a">>}),
     Mapping({<<"x", "str:a">>, <<"y", "int:5">>})}

InitCalls ==
    /\ conns = <<>>
    /\ constructed = <<>>
    /\ handles = <<>>
    /\ resolved = {}
    /\ pc = [t \in Threads |-> "idle"]
    /\ frame = [t \in Threads |-> IdleFrame]
    /\ calls = [t \in Threads |-> 0]
    /\ last = NoCall
    /\ failed = {}
    /\ internal = 0
    /\ loads = 0
    /\ internalLast = NoInternalCall

\* A manager constructed from an explicit file that loads.
Init ==
    /\ \E cfg \in Configs :
          /\ files = [l \in Locations |->
                         IF l = ExplicitFile THEN Some(cfg) ELSE <<>>]
          /\ config = Some(cfg)
    /\ mgr = "ready"
    /\ ctorArg = Some(ExplicitFile)
    /\ ctorIdx = 0
    /\ ctorError = ""
    /\ connections = EmptyConnections
    /\ InitCalls

\* Before construction, over every file system.
InitCtor ==
    /\ files \in [Locations -> {<<>>} \cup {Some(cfg) : cfg \in Configs}]
    /\ mgr = "none"
    /\ ctorArg = <<>>
    /\ ctorIdx = 0
    /\ ctorError = ""
    /\ config = <<>>
    /\ connections = EmptyConnections
    /\ InitCalls

Step(t) ==
    \/ DeprecatedGetConnection(t)
    \/ GetConnLookup(t)
    \/ GetConnScan(t)
    \/ GetConnStore(t)
    \/ GetConnReturn(t)
    \/ ForwardCall(t)
    \/ Bind(t)
    \/ EngineGet(t)
    \/ Connect(t)
    \/ AssignEngine(t)

\* The thread of a program that calls from one thread only.
MainThread == "t1"

\* Calls one after the other, each with any arguments and any driver
\* script.
StartSequential(t) ==
    /\ t = MainThread
    /\ calls[t] < MaxCalls
    /\ \/ \E name \in AllNames, sql \in Sqls, params \in ParamsSet :
             \/ StartManagerCall(t, "recordset", name, sql, params, "none")
             \/ StartManagerCall(t, "execute_sql", name, sql, params, "none")
       \/ \E name \in AllNames, fault \in {"none", "create_engine"} :
             \/ StartManagerCall(t, "get_engine", name, "", ParamsNone, fault)
             \/ StartManagerCall(t, "get_connection", name, "", ParamsNone, "none")
       \/ \E c \in DOMAIN conns, sql \in Sqls, params \in ParamsSet,
             fault \in Faults :
             \/ StartConnectionCall(t, c, "_recordset", sql, params, fault)
             \/ StartConnectionCall(t, c, "_execute_sql", sql, params, fault)
       \/ \E c \in DOMAIN conns, fault \in {"none", "create_engine"} :
             StartConnectionCall(t, c, "engine", "", ParamsNone, fault)

Next == StartSequential(MainThread) \/ Step(MainThread)

Spec == Init /\ [][Next]_vars

\* Calls of several threads at once, on one statement.
StartConcurrent(t) ==
    /\ calls[t] < MaxThreadCalls
    /\ \/ \E name \in AllNames :
             \/ StartManagerCall(t, "execute_sql", name, "SELECT 1", ParamsNone, "none")
             \/ StartManagerCall(t, "get_engine", name, "", ParamsNone, "none")
             \/ StartManagerCall(t, "get_connection", name, "", ParamsNone, "none")
       \/ \E c \in DOMAIN conns :
             \/ StartConnectionCall(t, c, "_execute_sql", "SELECT 1", ParamsNone, "none")
             \/ StartConnectionCall(t, c, "engine", "", ParamsNone, "none")

NextThreads == \E t \in Threads : StartConcurrent(t) \/ Step(t)

SpecThreads == Init /\ [][NextThreads]_vars

NextCtor ==
    \/ \E f \in {<<>>} \cup {Some(l) : l \in Locations} : CtorBegin(f)
    \/ CtorTryDefault
    \/ CtorRaise

SpecInit == InitCtor /\ [][NextCtor]_vars

\* A process that uses the functions of simqle.internal, over every file
\* system.
NextInternal ==
    \/ \E f \in Locations : LoadConnections(f)
    \/ \E fn \in {"execute_sql", "recordset", "get_connection"} :
          InternalCall(fn)

SpecInternal == InitCtor /\ [][NextInternal]_vars

(* ------------------------------------------------------------------ *)
(* Properties                                                           *)
(* ------------------------------------------------------------------ *)

\* The name is the name of a record of the loaded config.
Configured(n) ==
    \E i \in DOMAIN config[1].connections : config[1].connections[i].name = n

ConstructedFor(n) == {i \in DOMAIN constructed : constructed[i] = n}

HandlesOf(c) == {h \in DOMAIN handles : handles[h].conn = c}

Finished == last.thread # ""

ResolvingOps == {"recordset", "execute_sql", "get_engine"}

\* C1: calls made one after the other construct at most one _Connection
\* per name, and every resolution of a name returns that one object, the
\* one the cache holds: a call on a name cached before it resolves to the
\* object cached before it.
C1_OneConnectionPerName ==
    /\ \A n \in AllNames :
          /\ Cardinality(ConstructedFor(n)) <= 1
          /\ \A p \in resolved :
                p[1] = n => /\ p[2] # 0
                            /\ p[2] = connections[n]
                            /\ p[2] \in ConstructedFor(n)
    /\ (Finished /\ last.call.conn # 0 /\ last.call.name # ""
            /\ last.call.before[last.call.name] # 0)
          => last.call.conn = last.call.before[last.call.name]

\* A call has resolved a name that an earlier call had cached.
C1_Witness ==
    /\ Finished
    /\ last.call.op = "get_engine"
    /\ last.call.name = "db1"
    /\ last.call.before["db1"] # 0
    /\ last.call.conn = last.call.before["db1"]

\* C2: execute_sql, recordset and get_engine on a name that no record of
\* the config has end with the unknown-connection error, and the cache is
\* throughout the call, and after it, what it was before it, with no
\* entry for the name.
C2_UnknownNameFails ==
    /\ \A t \in Threads :
          (frame[t].op \in ResolvingOps /\ ~Configured(frame[t].name))
             => connections = frame[t].before
    /\ (Finished /\ last.call.op \in ResolvingOps
            /\ ~Configured(last.call.name))
          => /\ last.outcome.status = "raised"
             /\ last.outcome.error = "UnknownConnection"
             /\ connections = last.call.before
             /\ connections[last.call.name] = 0

\* A call on an unknown name has failed while the cache held an entry.
C2_Witness ==
    /\ Finished
    /\ last.call.op = "recordset"
    /\ last.call.name = "nope"
    /\ last.outcome.error = "UnknownConnection"
    /\ connections["db1"] # 0

\* The transaction and session events of a driver log.
IsSessionEvent(e) == e \in {"begin", "execute", "commit", "rollback", "close"}

Count(log, e) == Cardinality({i \in DOMAIN log : log[i] = e})

BodyOps == {"_execute_sql", "_recordset"}

\* The last call was op on a _Connection, its sql and params bind, and the
\* driver's script raises at a primitive of faults.
FinishedBody(ops, faults) ==
    /\ Finished
    /\ last.call.op \in ops
    /\ last.call.fault \in faults
    /\ ~BindSqlRaises(last.call.sql, last.call.params)

\* C3: a _Connection has at most one engine handle created for it, and an
\* access to its engine on a driver that creates engines returns a handle
\* created for it, which the _Connection then holds.
C3_OneEnginePerConnection ==
    /\ \A c \in DOMAIN conns : Cardinality(HandlesOf(c)) <= 1
    /\ (Finished /\ last.call.op \in {"engine", "get_engine"}
            /\ last.call.conn # 0 /\ last.call.fault = "none")
          => /\ last.outcome.status = "returned"
             /\ last.outcome.value \in HandlesOf(last.call.conn)
             /\ conns[last.call.conn]._engine = last.outcome.value

\* C4: an execute call on a driver whose execute raises ends with the
\* driver having seen begin, execute, rollback, close, in this order, each
\* once, and no commit.
C4_RollbackThenClose ==
    FinishedBody({"_execute_sql"}, {"execute"})
       => SelectSeq(last.outcome.log, IsSessionEvent)
             = <<"begin", "execute", "rollback", "close">>

\* C5: an execute or recordset call on a driver that opens sessions ends,
\* whichever later primitive raises, with its one session opened and
\* closed exactly once, the close being the driver's last event.
C5_SessionAlwaysClosed ==
    FinishedBody(BodyOps, Faults \ {"create_engine", "connect"})
       => /\ Count(last.outcome.log, "connect") = 1
          /\ Count(last.outcome.log, "close") = 1
          /\ last.outcome.log[Len(last.outcome.log)] = "close"

\* C6: a recordset call on a driver whose execute, fetchall or keys raises
\* ends with the error raised, the transaction rolled back and never
\* committed.
C6_RecordsetRollsBack ==
    FinishedBody({"_recordset"}, {"execute", "fetchall", "keys"})
       => /\ last.outcome.status = "raised"
          /\ Count(last.outcome.log, "rollback") = 1
          /\ Count(last.outcome.log, "commit") = 0

\* C7: under every interleaving of the threads' calls, at most one
\* _Connection is constructed per name and all resolutions of a name
\* return the same object.
C7_OneConstructionUnderThreads ==
    /\ \A n \in AllNames : Cardinality(ConstructedFor(n)) <= 1
    /\ \A p, q \in resolved : p[1] = q[1] => p[2] = q[2]

\* C8: while two threads are both in the first use of the engine of one
\* _Connection (each found the handle slot empty), at most one engine
\* handle has been created for it.
C8_OneEngineUnderThreads ==
    \A t, u \in Threads :
       (/\ t # u
        /\ pc[t] \in {"connect", "assign"}
        /\ pc[u] \in {"connect", "assign"}
        /\ frame[t].conn = frame[u].conn)
          => Cardinality(HandlesOf(frame[t].conn)) <= 1

\* C9: a ConnectionManager.execute_sql or recordset call on a configured
\* name ends with the statement executed on the connection being the
\* caller's sql with exactly the caller's params bound.
C9_ParamsForwarded ==
    (/\ Finished
     /\ last.call.op \in {"recordset", "execute_sql"}
     /\ Configured(last.call.name)
     /\ ~BindSqlRaises(last.call.sql, last.call.params))
       => /\ last.outcome.executed.sql = last.call.sql
          /\ {<<b.key, b.value>> : b \in last.outcome.executed.binds}
                = last.call.params.items

\* The default locations that load.
Loadable == {i \in DOMAIN DEFAULT_FILE_LOCATIONS :
                files[DEFAULT_FILE_LOCATIONS[i]] # <<>>}

\* C10: a construction with no file_name ends with the config of the
\* first default location that loads, and fails, with the no-config-found
\* error, only when none loads.
C10_FirstDefaultWins ==
    (ctorArg = <<>> /\ mgr \in {"ready", "failed"})
       => IF Loadable # {}
          THEN /\ mgr = "ready"
               /\ config = files[DEFAULT_FILE_LOCATIONS[Min(Loadable)]]
          ELSE /\ mgr = "failed"
               /\ ctorError = "NoConfigFound"

\* The last call was op on the manager, on a configured name, with sql and
\* params that bind.
FinishedManagerCall(op) ==
    /\ Finished
    /\ last.call.op = op
    /\ Configured(last.call.name)
    /\ ~BindSqlRaises(last.call.sql, last.call.params)

\* C11: ConnectionManager.recordset on a configured name, on a driver that
\* executes the statement without error, returns the pair of the rows and
\* the column names the driver produced.
C11_RecordsetReturnsData ==
    (FinishedManagerCall("recordset") /\ last.call.fault = "none")
       => /\ last.outcome.status = "returned"
          /\ last.outcome.kind = "data_headings"
          /\ Count(last.outcome.log, "fetchall") = 1
          /\ Count(last.outcome.log, "keys") = 1

\* C12: ConnectionManager.execute_sql on a configured name, on a driver
\* that executes the statement without error, returns None, and the driver
\* has seen one begin, one execute of the statement and one commit.
C12_ExecuteSqlCommitsOnce ==
    (FinishedManagerCall("execute_sql") /\ last.call.fault = "none")
       => /\ last.outcome.status = "returned"
          /\ last.outcome.kind = "None"
          /\ Count(last.outcome.log, "begin") = 1
          /\ Count(last.outcome.log, "execute") = 1
          /\ Count(last.outcome.log, "commit") = 1

\* C13: a call whose create_engine raises ends with the driver's error
\* and leaves the _Connection's _engine None; a later access of the engine
\* of such a _Connection, on a driver that now creates engines, returns a
\* handle created for it, which the _Connection then holds.
C13_RetryAfterFailedCreate ==
    /\ (Finished /\ last.call.fault = "create_engine"
            /\ last.outcome.log = <<"create_engine">>)
          => /\ last.outcome.status = "raised"
             /\ last.outcome.error = "DriverError"
             /\ conns[last.call.conn]._engine = 0
    /\ (Finished /\ last.call.op = "engine" /\ last.call.fault = "none"
            /\ last.call.conn \in failed)
          => /\ last.outcome.status = "returned"
             /\ last.outcome.value \in HandlesOf(last.call.conn)
             /\ conns[last.call.conn]._engine = last.outcome.value

\* The calls of _execute_sql and _recordset that have bound their
\* statement: those in progress past line 145 or 171, and the last one
\* finished unless it ended in the binding.
BoundFrames ==
    {frame[t] : t \in {u \in Threads :
                          /\ frame[u].op \in BodyOps
                          /\ pc[u] \in {"engine", "connect", "assign"}}}
       \cup (IF Finished /\ last.call.op \in BodyOps
                  /\ last.outcome.error # "ArgumentError"
             THEN {last.call} ELSE {})

\* C14: the bound statement is the text of the caller's sql with one bind
\* per item of params, of the item's key and value; a bind has the type
\* VARCHAR if and only if its value is a str and no type otherwise; for
\* params None or empty it is the text with no binds.
C14_VarcharIffString ==
    \A f \in BoundFrames :
       /\ f.bound.sql = f.sql
       /\ {<<b.key, b.value>> : b \in f.bound.binds} = f.params.items
       /\ Cardinality(f.bound.binds) = Cardinality(f.params.items)
       /\ \A b \in f.bound.binds :
             /\ b.value \in StrValues <=> b.type = "VARCHAR"
             /\ b.value \notin StrValues <=> b.type = "untyped"
       /\ (f.params.isNone \/ f.params.items = {}) => f.bound = text(f.sql)

\* A call has bound a str and an int to one statement.
C14_Witness ==
    /\ Finished
    /\ last.call.op = "_recordset"
    /\ last.call.sql = "SELECT :x, :y"
    /\ last.call.bound.binds =
          {[key |-> "x", value |-> "str:a", type |-> "VARCHAR"],
           [key |-> "y", value |-> "int:5", type |-> "untyped"]}

\* The calls that use the engine of a _Connection.
EngineOps == {"engine", "get_engine", "_execute_sql", "_recordset"}

\* The name has been referenced: a call has resolved it, or a call that
\* resolves it is in progress.
Referenced(n) ==
    \/ \E p \in resolved : p[1] = n
    \/ \E t \in Threads : frame[t].op \in ResolvingOps /\ frame[t].name = n

\* C15: before the first call the manager's cache is empty and no
\* _Connection exists; a _Connection exists only for a name that has been
\* referenced; a _Connection is constructed with _engine None, and an
\* engine handle is created for it only in a call that uses its engine.
C15_LazyAtBothLevels ==
    /\ []((\A t \in Threads : calls[t] = 0)
             => connections = EmptyConnections /\ conns = <<>>)
    /\ [](\A i \in DOMAIN constructed : Referenced(constructed[i]))
    /\ [](\A c \in DOMAIN conns :
             conns[c]._engine # 0 => HandlesOf(c) # {})
    /\ [][/\ \A c \in DOMAIN conns' :
                c \notin DOMAIN conns
                   => /\ conns'[c]._engine = 0
                      /\ \A h \in DOMAIN handles' : handles'[h].conn # c
          /\ handles' # handles
                => \E t \in Threads :
                      /\ pc[t] = "connect"
                      /\ frame[t].op \in EngineOps
                      /\ handles' = Append(handles, handles'[Len(handles')])
                      /\ handles'[Len(handles')].conn = frame[t].conn]_vars

\* Two _Connections are cached; the engine of one has been used, the
\* other has had no engine handle created.
C15_Witness ==
    \E c, d \in DOMAIN conns :
       /\ HandlesOf(c) # {}
       /\ HandlesOf(d) = {}
       /\ conns[d]._engine = 0
       /\ connections["db1"] # 0
       /\ connections["db2"] # 0
       /\ connections["nope"] = 0

\* C16: an execute or recordset call on a driver that raises nowhere
\* returns, and the driver has seen, once each and in this order: connect,
\* begin, execute, for recordset fetchall and keys, commit, close; and no
\* rollback.
C16_SuccessfulCallOrder ==
    FinishedBody(BodyOps, {"none"})
       => /\ last.outcome.status = "returned"
          /\ last.outcome.log =
                IF last.call.op = "_recordset"
                THEN <<"connect", "begin", "execute", "fetchall", "keys",
                       "commit", "close">>
                ELSE <<"connect", "begin", "execute", "commit", "close">>
          /\ Count(last.outcome.log, "rollback") = 0

\* The record of the loaded config a _Connection was constructed from.
RecordOf(c) ==
    config[1].connections[Min({i \in DOMAIN config[1].connections :
        config[1].connections[i].name = constructed[c]})]

\* C17: the connection string of a _Connection is the quoted connection
\* body of its record if the record's url_escape is true, and the body
\* itself if url_escape is false or absent; it never changes.
C17_EscapedIffEnabled ==
    /\ [](\A c \in DOMAIN conns :
             conns[c].connection_string =
                IF RecordOf(c).url_escape = "true"
                THEN quote_plus(RecordOf(c).connection)
                ELSE RecordOf(c).connection)
    /\ [][\A c \in DOMAIN conns :
             conns'[c].connection_string = conns[c].connection_string]_vars

\* C18: no step of a call changes the loaded config or changes or removes
\* an entry the cache holds; a step that changes the cache adds the entry
\* of the configured name of a call in progress.
C18_CacheOnlyGrows ==
    [][/\ config' = config
       /\ \A n \in AllNames :
             /\ connections[n] # 0 => connections'[n] = connections[n]
             /\ connections'[n] # connections[n]
                   => /\ Configured(n)
                      /\ \E t \in Threads :
                            /\ frame[t].op \in ResolvingOps
                            /\ frame[t].name = n]_vars

\* C19: a _execute_sql or _recordset call reads the engine only with its
\* statement bound: while it is at the engine property or in _connect,
\* its sql and params have bound; a call whose binding raises ends with
\* that error, having called no driver primitive and created no engine
\* handle; and an engine handle such a call creates, it creates after
\* binding.
C19_BindBeforeEngine ==
    /\ [](\A t \in Threads :
             (frame[t].op \in BodyOps
                 /\ pc[t] \in {"engine", "connect", "assign"})
                => /\ ~BindSqlRaises(frame[t].sql, frame[t].params)
                   /\ frame[t].bound =
                         _bind_sql(frame[t].sql, frame[t].params))
    /\ []((Finished /\ last.call.op \in BodyOps
              /\ BindSqlRaises(last.call.sql, last.call.params))
             => /\ last.outcome.status = "raised"
                /\ last.outcome.error = "ArgumentError"
                /\ last.outcome.log = <<>>
                /\ last.call.handle = 0)
    /\ [][\A t \in Threads :
             (frame[t].op \in BodyOps /\ pc[t] = "bind")
                => handles' = handles]_vars

\* A call has failed in binding on a driver that raises nowhere.
C19_Witness ==
    /\ Finished
    /\ last.call.op = "_execute_sql"
    /\ last.call.fault = "none"
    /\ last.call.sql = "SELECT 1"
    /\ last.call.params = Mapping({<<"x", "str:a">>})
    /\ last.outcome.error = "ArgumentError"
    /\ handles = <<>>

\* C20: a load_connections call on a file that loads, made while no
\* manager is installed, returns and installs one; a load_connections call
\* made while one is installed raises the already-loaded error; and no
\* call changes an installed manager.
C20_InitOnce ==
    /\ []((internalLast.fn = "load_connections"
              /\ files[internalLast.file] # <<>>
              /\ internalLast.error # "AlreadyLoaded")
             => /\ internalLast.status = "returned"
                /\ internal # 0)
    /\ [][/\ (internal # 0 /\ internalLast'.fn = "load_connections")
                => internalLast'.error = "AlreadyLoaded"
          /\ internal # 0 => internal' = internal]_vars

====
